---- MODULE Spec2Model ----
(***************************************************************************)
(* Model of the Blank-Cache policy cache (src/lib/cache.ts): one Cache     *)
(* instance with its entry Map, its timer-handle Map, the platform's       *)
(* pending timeouts and the wall clock read by Date.now().                 *)
(***************************************************************************)
EXTENDS Integers, Sequences, FiniteSets

(* ---------------------------- bounds ----------------------------------- *)
MaxKeys  == 4      \* number of set() calls explored (keys 1..MaxKeys)
MaxCap   == 2      \* largest option.max explored
MaxTime  == 2      \* largest value of the clock explored under FIFO and EXPIRE
MaxIdleTime == 0   \* the same under LRU and LFU, which only copy the clock into insertedAt
MaxIndex == 2      \* get() under LRU is explored while every index < MaxIndex
MaxFreq  == 2      \* get() under LFU is explored while the frequency < MaxFreq
MaxAgeBound == 1   \* largest option.maxAge explored
MaxSnapshots == 1  \* number of get_state_of_cache() calls explored
MaxSnapKeys == 2   \* number of set() calls explored beside a snapshot

(* ---------------------------- values ----------------------------------- *)
Undefined  == -1             \* the `undefined` returned by the _get_*_key helpers
ForeignKey == 0              \* a string that set() never returned
NoExpiry   == -1             \* `expires: false`
NotFound   == "undefined"    \* the `undefined` returned by get()
NoValue    == "none"         \* the operation returns no content
Infinity   == 1000000        \* Math.min() of no arguments
Item       == <<"item1", "item2", "item3", "item4", "item5", "item6", "item7", "item8">>
Values     == {Item[i] : i \in DOMAIN Item}

Options ==
    {[type |-> t, max |-> m, maxAge |-> 0] : t \in {"LRU", "LFU", "FIFO"}, m \in 1..MaxCap}
    \cup {[type |-> "EXPIRE", max |-> 0, maxAge |-> a] : a \in 1..MaxAgeBound}

\* configurations the Option type or its comments rule out, which the
\* constructor is handed all the same: no capacity, no lifetime, an unknown tag
InvalidOptions ==
    {[type |-> t, max |-> 0, maxAge |-> 0] : t \in {"LRU", "LFU", "FIFO", "EXPIRE"}}
    \cup {[type |-> "MRU", max |-> m, maxAge |-> 0] : m \in 1..MaxCap}

ValidOption(o) ==
    \/ o.type \in {"LRU", "LFU", "FIFO"} /\ o.max >= 1
    \/ o.type = "EXPIRE" /\ o.maxAge >= 1

VARIABLES
    option,      \* the configuration the cache was constructed with
    cache,       \* the entry Map, as the sequence of its entries in iteration order
    timers,      \* the timer-handle Map: key -> timer id
    pending,     \* the platform's pending timeouts: records [id, key, due]
    now,         \* Date.now()
    nextKey,     \* the next key crypto.randomUUID() returns
    nextTimer,   \* the next id setTimeout() returns
    last,        \* the last call made and what it returned
    useOrder,    \* history: live keys, most recently used (set or read) first
    gets,        \* history: successful get() calls per live key
    stored,      \* history: the value passed to set() per live key
    run,         \* history: calls made since the cache was last empty
    read,        \* history: get() has been called
    snap         \* the Map get_state_of_cache() returned last, held by the caller

vars == <<option, cache, timers, pending, now, nextKey, nextTimer, last,
          useOrder, gets, stored, run, read, snap>>

(* ------------------------- the JavaScript Map --------------------------- *)
Keys(m) == {m[i].key : i \in DOMAIN m}

MapHas(m, k) == k \in Keys(m)

MapGet(m, k) == m[CHOOSE i \in DOMAIN m : m[i].key = k].val

\* Map.prototype.set keeps the position of a key that is already present.
MapSet(m, k, v) ==
    IF MapHas(m, k)
    THEN [i \in DOMAIN m |-> IF m[i].key = k THEN [key |-> k, val |-> v] ELSE m[i]]
    ELSE Append(m, [key |-> k, val |-> v])

MapDelete(m, k) == SelectSeq(m, LAMBDA p : p.key # k)

Min(S) == IF S = {} THEN Infinity ELSE CHOOSE x \in S : \A y \in S : x <= y

\* variant: the scan does not stop at the first hit and ends on the last
FirstKey_last(m, hits) ==
    IF hits = {} THEN Undefined
    ELSE m[CHOOSE i \in hits : \A j \in hits : j <= i].key

\* the key at the first of the positions hits in iteration order, or undefined
FirstKey(m, hits) ==
    IF hits = {} THEN Undefined
    ELSE m[CHOOSE i \in hits : \A j \in hits : i <= j].key

(* ------------------------- the policy helpers --------------------------- *)
NewEntry(value, exp) ==
    [expires |-> exp, content |-> value, index |-> 0, frequency |-> 0, insertedAt |-> now]

\* variant: the oldest index is taken to be the size, not the size minus one
_get_lru_key_offByOne(m) ==
    LET maxIndex == Len(m)
    IN  FirstKey(m, {i \in DOMAIN m : m[i].val.index = maxIndex})

_get_lru_key(m) ==
    LET maxIndex == Len(m) - 1
    IN  FirstKey(m, {i \in DOMAIN m : m[i].val.index = maxIndex})

\* variant: the first entry is the victim, whatever its frequency
_get_lfu_key_first(m) ==
    FirstKey(m, DOMAIN m)

_get_lfu_key(m) ==
    LET minFrequency == Min({m[i].val.frequency : i \in DOMAIN m})
    IN  FirstKey(m, {i \in DOMAIN m : m[i].val.frequency = minFrequency})

Max(S) == IF S = {} THEN -Infinity ELSE CHOOSE x \in S : \A y \in S : x >= y

\* variant: the first entry of the Map is the victim, whatever its insertedAt
_get_fifo_key_mapOrder(m) ==
    FirstKey(m, DOMAIN m)

\* variant: Math.max in place of Math.min
_get_fifo_key_newest(m) ==
    LET maxInsertedAt == Max({m[i].val.insertedAt : i \in DOMAIN m})
    IN  FirstKey(m, {i \in DOMAIN m : m[i].val.insertedAt = maxInsertedAt})

_get_fifo_key(m) ==
    LET minInsertedAt == Min({m[i].val.insertedAt : i \in DOMAIN m})
    IN  FirstKey(m, {i \in DOMAIN m : m[i].val.insertedAt = minInsertedAt})

\* variant: only the entry read is written, the others keep their index
_update_lru_entries_keyOnly(m, keyUnique) ==
    [i \in DOMAIN m |->
        IF m[i].key = keyUnique
        THEN [m[i] EXCEPT !.val.index = 0]
        ELSE m[i]]

_update_lru_entries(m, keyUnique) ==
    [i \in DOMAIN m |->
        IF m[i].key = keyUnique
        THEN [m[i] EXCEPT !.val.index = 0]
        ELSE [m[i] EXCEPT !.val.index = @ + 1]]

\* variant: the key test is dropped, every entry is counted
_update_lfu_entries_all(m, keyUnique) ==
    [i \in DOMAIN m |-> [m[i] EXCEPT !.val.frequency = @ + 1]]

_update_lfu_entries(m, keyUnique) ==
    [i \in DOMAIN m |->
        IF m[i].key = keyUnique
        THEN [m[i] EXCEPT !.val.frequency = @ + 1]
        ELSE m[i]]

\* variant: a read leaves the entry alone
_update_fifo_entries_none(m, keyUnique) == m

_update_fifo_entries(m, keyUnique) ==
    [i \in DOMAIN m |->
        IF m[i].key = keyUnique
        THEN [m[i] EXCEPT !.val.insertedAt = now]
        ELSE m[i]]

\* variant: no size test, the candidate is evicted at every set
Victim_always(m) ==
    CASE option.type = "LRU"  -> _get_lru_key(m)
      [] option.type = "LFU"  -> _get_lfu_key(m)
      [] option.type = "FIFO" -> _get_fifo_key(m)
      [] OTHER                -> Undefined

\* variant: the size test is strict
Victim_strict(m) ==
    LET cand == CASE option.type = "LRU"  -> _get_lru_key(m)
                  [] option.type = "LFU"  -> _get_lfu_key(m)
                  [] option.type = "FIFO" -> _get_fifo_key(m)
                  [] OTHER                -> Undefined
    IN  IF cand # Undefined /\ Len(m) > option.max THEN cand ELSE Undefined

\* set(): the victim deleted before the insertion, or undefined
Victim(m) ==
    LET cand == CASE option.type = "LRU"  -> _get_lru_key(m)
                  [] option.type = "LFU"  -> _get_lfu_key(m)
                  [] option.type = "FIFO" -> _get_fifo_key(m)
                  [] OTHER                -> Undefined
    IN  IF cand # Undefined /\ Len(m) >= option.max THEN cand ELSE Undefined

\* variant: set() inserts without raising the index of the entries it keeps
BumpIndex_none(m) == m

BumpIndex(m) == [i \in DOMAIN m |-> [m[i] EXCEPT !.val.index = @ + 1]]

\* variant: the new entry is inserted first and the victim chosen afterwards
SetCache_insertFirst(m, key, value) ==
    LET ins    == CASE option.type = "LRU"  -> MapSet(BumpIndex(m), key, NewEntry(value, NoExpiry))
                    [] option.type = "LFU"  -> MapSet(m, key, NewEntry(value, NoExpiry))
                    [] option.type = "FIFO" -> MapSet(m, key, NewEntry(value, NoExpiry))
                    [] option.type = "EXPIRE" -> MapSet(m, key, NewEntry(value, now + option.maxAge))
                    [] OTHER -> m
        victim == Victim(ins)
    IN  IF victim # Undefined THEN MapDelete(ins, victim) ELSE ins

\* set(): the entry Map after the call
SetCache(m, key, value) ==
    LET victim  == Victim(m)
        evicted == IF victim # Undefined THEN MapDelete(m, victim) ELSE m
    IN  CASE option.type = "LRU"  -> MapSet(BumpIndex(evicted), key, NewEntry(value, NoExpiry))
          [] option.type = "LFU"  -> MapSet(evicted, key, NewEntry(value, NoExpiry))
          [] option.type = "FIFO" -> MapSet(evicted, key, NewEntry(value, NoExpiry))
          [] option.type = "EXPIRE" -> MapSet(m, key, NewEntry(value, now + option.maxAge))
          [] OTHER -> m

\* variant: no deadline test on access, the timer alone deletes
Expired_timerOnly(e) == FALSE

\* get()/has(): the entry is an EXPIRE entry whose deadline has passed
Expired(e) == option.type = "EXPIRE" /\ e.expires # NoExpiry /\ now > e.expires

\* variant: size() counts the Map as it is
ExpiredKeys_none(m) == {}

\* size(): the keys its sweep deletes
ExpiredKeys(m) ==
    {k \in Keys(m) : MapGet(m, k).expires # NoExpiry /\ now > MapGet(m, k).expires}

\* variant: the timeout is cleared but its handle stays in the Map
DropTimer_keep(t, k) == t

\* clearTimeout(timers.get(key)); timers.delete(key), when the handle is truthy
DropTimer(t, k) ==
    IF k \in DOMAIN t /\ t[k] # 0 THEN [x \in DOMAIN t \ {k} |-> t[x]] ELSE t

\* variant: the handle is dropped without clearTimeout
CancelPending_none(p, t, k) == p

\* variant: every pending timeout is cleared, not that of the key alone
CancelPending_all(p, t, k) == {}

CancelPending(p, t, k) ==
    IF k \in DOMAIN t /\ t[k] # 0 THEN {x \in p : x.id # t[k]} ELSE p

(* ---------------------------- the snapshot ------------------------------ *)
(* map: the caller's copy of the Map; shared: the keys whose entry record in   *)
(* the copy is the very object the live Map holds; n: calls made so far.        *)
NoSnapshot == [n |-> 0, map |-> <<>>, shared |-> {}]

\* a record stays shared while the live Map keeps the object: cache.set(key,
\* {...value}) puts a new object in its place, cache.delete(key) drops it
\* the value a caller writes into a record it reached through the copy
Tampered == "tampered"

WriteContent(m, k) ==
    [i \in DOMAIN m |-> IF m[i].key = k THEN [m[i] EXCEPT !.val.content = Tampered] ELSE m[i]]

\* variant: the update functions assign to the fields of the entry object in
\* place, so a record leaves the shared ones only when its key is deleted
StillShared_inPlace(s, kept) == [s EXCEPT !.shared = @ \cap Keys(cache')]

StillShared(s, kept) == [s EXCEPT !.shared = @ \cap kept]

(* ----------------------------- history --------------------------------- *)
Restrict(f, S) == [x \in DOMAIN f \cap S |-> f[x]]

Without(s, k) == SelectSeq(s, LAMBDA x : x # k)

LiveOnly(s, m) == SelectSeq(s, LAMBDA x : x \in Keys(m))

\* evicted: a key the call deleted from the entry Map, or undefined
Call(op, key, ret, flag, n, evicted) ==
    [op |-> op, key |-> key, ret |-> ret, flag |-> flag, n |-> n, evicted |-> evicted]

\* calls since the cache was last empty: sets only, then gets only, or anything else
RunAfter(op, m) ==
    LET other == [sets |-> 0, phase |-> "other"]
    IN  IF m = <<>> THEN [sets |-> 0, phase |-> "sets"]
        ELSE CASE op = "set" -> IF run.phase = "sets"
                                THEN [run EXCEPT !.sets = @ + 1]
                                ELSE other
               [] op = "get" -> IF run.phase \in {"sets", "gets"}
                                THEN [run EXCEPT !.phase = "gets"]
                                ELSE other
               [] op \in {"has", "size"} -> run
               [] OTHER -> other

\* the history kept for a policy is the one its claims are about
Counted == option.type = "LFU"
Ordered == option.type = "LRU"
Queued  == option.type = "FIFO"

History(op, m) ==
    /\ gets' = Restrict(gets, Keys(m))
    /\ stored' = Restrict(stored, Keys(m))
    /\ useOrder' = LiveOnly(useOrder, m)
    /\ run' = IF Ordered THEN RunAfter(op, m) ELSE run
    /\ snap' = StillShared(snap, Keys(m))

(* ------------------------------ actions -------------------------------- *)
Init ==
    /\ option \in Options
    /\ cache = <<>>
    /\ timers = <<>>
    /\ pending = {}
    /\ now = 0
    /\ nextKey = 1
    /\ nextTimer = 1
    /\ last = Call("new", Undefined, NoValue, FALSE, 0, Undefined)
    /\ useOrder = <<>>
    /\ gets = <<>>
    /\ stored = <<>>
    /\ run = [sets |-> 0, phase |-> "sets"]
    /\ read = FALSE
    /\ snap = NoSnapshot

\* The engine never inspects a value, so the caller stores a different one at
\* every call: any other choice of values is an image of this one.
Set(value) ==
    /\ nextKey <= MaxKeys
    /\ value = Item[nextKey]
    /\ LET key == nextKey
           m   == SetCache(cache, key, value)
       IN  /\ cache' = m
           /\ nextKey' = nextKey + 1
           /\ IF option.type = "EXPIRE"
              THEN /\ pending' = pending \cup
                         {[id |-> nextTimer, key |-> key, due |-> now + option.maxAge]}
                   /\ timers' = [x \in DOMAIN timers \cup {key} |->
                                     IF x = key THEN nextTimer ELSE timers[x]]
                   /\ nextTimer' = nextTimer + 1
              ELSE UNCHANGED <<pending, timers, nextTimer>>
           /\ last' = Call("set", key, NoValue, FALSE, 0, Victim(cache))
           /\ gets' = IF Counted
                      THEN [x \in Keys(m) |-> IF x = key THEN 0 ELSE gets[x]]
                      ELSE gets
           /\ stored' = [x \in Keys(m) |-> IF x = key THEN value ELSE stored[x]]
           /\ useOrder' = IF Ordered THEN <<key>> \o LiveOnly(useOrder, m) ELSE useOrder
           /\ run' = IF Ordered THEN RunAfter("set", m) ELSE run
           /\ snap' = StillShared(snap, IF option.type = "LRU" THEN {} ELSE Keys(m))
    /\ UNCHANGED <<option, now, read>>

\* variant: the policy update runs before the presence test
GetMiss_updatesFirst(key) ==
    /\ ~MapHas(cache, key)
    /\ cache' = CASE option.type = "LRU"  -> _update_lru_entries(cache, key)
                  [] option.type = "LFU"  -> _update_lfu_entries(cache, key)
                  [] option.type = "FIFO" -> _update_fifo_entries(cache, key)
                  [] OTHER -> cache
    /\ last' = Call("get", key, NotFound, FALSE, 0, Undefined)
    /\ run' = IF Ordered THEN RunAfter("get", cache) ELSE run
    /\ read' = (read \/ Queued)
    /\ UNCHANGED <<option, timers, pending, now, nextKey, nextTimer,
                   useOrder, gets, stored, snap>>

GetMiss(key) ==
    /\ ~MapHas(cache, key)
    /\ last' = Call("get", key, NotFound, FALSE, 0, Undefined)
    /\ run' = IF Ordered THEN RunAfter("get", cache) ELSE run
    /\ read' = (read \/ Queued)
    /\ UNCHANGED <<option, cache, timers, pending, now, nextKey, nextTimer,
                   useOrder, gets, stored, snap>>

GetExpired(key) ==
    /\ MapHas(cache, key)
    /\ Expired(MapGet(cache, key))
    /\ cache' = MapDelete(cache, key)
    /\ timers' = DropTimer(timers, key)
    /\ pending' = CancelPending(pending, timers, key)
    /\ last' = Call("get", key, NotFound, FALSE, 0, key)
    /\ History("get", cache')
    /\ read' = (read \/ Queued)
    /\ UNCHANGED <<option, now, nextKey, nextTimer>>

GetHit(key) ==
    /\ MapHas(cache, key)
    /\ ~Expired(MapGet(cache, key))
    /\ option.type = "LRU" => \A i \in DOMAIN cache : cache[i].val.index < MaxIndex
    /\ option.type = "LFU" => MapGet(cache, key).frequency < MaxFreq
    /\ cache' = CASE option.type = "LRU"  -> _update_lru_entries(cache, key)
                  [] option.type = "LFU"  -> _update_lfu_entries(cache, key)
                  [] option.type = "FIFO" -> _update_fifo_entries(cache, key)
                  [] OTHER -> cache
    /\ last' = Call("get", key, MapGet(cache, key).content, FALSE, 0, Undefined)
    /\ gets' = IF Counted THEN [gets EXCEPT ![key] = @ + 1] ELSE gets
    /\ useOrder' = IF Ordered THEN <<key>> \o Without(useOrder, key) ELSE useOrder
    /\ run' = IF Ordered THEN RunAfter("get", cache') ELSE run
    /\ read' = (read \/ Queued)
    /\ snap' = StillShared(snap, CASE option.type = "LRU" -> {}
                                    [] option.type \in {"LFU", "FIFO"} -> Keys(cache) \ {key}
                                    [] OTHER -> Keys(cache))
    /\ UNCHANGED <<option, timers, pending, now, nextKey, nextTimer, stored>>

\* variant: has() is the presence of the key in the Map (no deadline test)
Has_presenceOnly(key) ==
    /\ last' = Call("has", key, NoValue, MapHas(cache, key), 0, Undefined)
    /\ History("has", cache)
    /\ UNCHANGED <<option, cache, timers, pending, now, nextKey, nextTimer, read>>

Has(key) ==
    /\ IF MapHas(cache, key) /\ Expired(MapGet(cache, key))
       THEN /\ cache' = MapDelete(cache, key)
            /\ timers' = DropTimer(timers, key)
            /\ pending' = CancelPending(pending, timers, key)
            /\ last' = Call("has", key, NoValue, FALSE, 0, key)
       ELSE /\ UNCHANGED <<cache, timers, pending>>
            /\ last' = Call("has", key, NoValue, MapHas(cache, key), 0, Undefined)
    /\ History("has", cache')
    /\ UNCHANGED <<option, now, nextKey, nextTimer, read>>

\* variant: under LRU remove() closes the gap it leaves in the indexes
Remove_renumbers(key) ==
    /\ IF option.type = "EXPIRE"
       THEN /\ timers' = DropTimer(timers, key)
            /\ pending' = CancelPending(pending, timers, key)
       ELSE UNCHANGED <<timers, pending>>
    /\ cache' = IF option.type = "LRU" /\ MapHas(cache, key)
                THEN LET gap  == MapGet(cache, key).index
                         rest == MapDelete(cache, key)
                     IN  [i \in DOMAIN rest |->
                            IF rest[i].val.index > gap
                            THEN [rest[i] EXCEPT !.val.index = @ - 1]
                            ELSE rest[i]]
                ELSE MapDelete(cache, key)
    /\ last' = Call("remove", key, NoValue, FALSE, 0,
                     IF MapHas(cache, key) THEN key ELSE Undefined)
    /\ History("remove", cache')
    /\ UNCHANGED <<option, now, nextKey, nextTimer, read>>

\* variant: remove() deletes the entry and leaves its timeout running
Remove_entryOnly(key) ==
    /\ cache' = MapDelete(cache, key)
    /\ last' = Call("remove", key, NoValue, FALSE, 0,
                     IF MapHas(cache, key) THEN key ELSE Undefined)
    /\ History("remove", cache')
    /\ UNCHANGED <<option, timers, pending, now, nextKey, nextTimer, read>>

Remove(key) ==
    /\ IF option.type = "EXPIRE"
       THEN /\ timers' = DropTimer(timers, key)
            /\ pending' = CancelPending(pending, timers, key)
       ELSE UNCHANGED <<timers, pending>>
    /\ cache' = MapDelete(cache, key)
    /\ last' = Call("remove", key, NoValue, FALSE, 0,
                     IF MapHas(cache, key) THEN key ELSE Undefined)
    /\ History("remove", cache')
    /\ UNCHANGED <<option, now, nextKey, nextTimer, read>>

\* variant: clear() empties the entry Map and leaves the timeouts running
Clear_entriesOnly ==
    /\ cache' = <<>>
    /\ last' = Call("clear", Undefined, NoValue, FALSE, 0, FirstKey(cache, DOMAIN cache))
    /\ History("clear", cache')
    /\ UNCHANGED <<option, timers, pending, now, nextKey, nextTimer, read>>

Clear ==
    /\ IF option.type = "EXPIRE"
       THEN /\ pending' = {x \in pending : \A k \in DOMAIN timers : timers[k] # x.id}
            /\ timers' = <<>>
       ELSE UNCHANGED <<timers, pending>>
    /\ cache' = <<>>
    /\ last' = Call("clear", Undefined, NoValue, FALSE, 0, FirstKey(cache, DOMAIN cache))
    /\ History("clear", cache')
    /\ UNCHANGED <<option, now, nextKey, nextTimer, read>>

Size ==
    /\ IF option.type = "EXPIRE"
       THEN LET gone == ExpiredKeys(cache)
            IN  /\ cache' = SelectSeq(cache, LAMBDA p : p.key \notin gone)
                /\ timers' = [x \in DOMAIN timers \ {k \in gone \cap DOMAIN timers : timers[k] # 0}
                                  |-> timers[x]]
                /\ pending' = {x \in pending :
                                 \A k \in gone \cap DOMAIN timers : timers[k] # x.id}
       ELSE UNCHANGED <<cache, timers, pending>>
    /\ last' = Call("size", Undefined, NoValue, FALSE, Len(cache'),
                     FirstKey(cache, {i \in DOMAIN cache : cache[i].key \notin Keys(cache')}))
    /\ History("size", cache')
    /\ UNCHANGED <<option, now, nextKey, nextTimer, read>>

\* variant: the callback forgets the entry and deletes the handle only
TimerFire_handleOnly(t) ==
    /\ t \in pending
    /\ now >= t.due
    /\ pending' = pending \ {t}
    /\ timers' = [x \in DOMAIN timers \ {t.key} |-> timers[x]]
    /\ last' = Call("timer", t.key, NoValue, FALSE, 0, Undefined)
    /\ UNCHANGED <<option, cache, now, nextKey, nextTimer, useOrder, gets, stored, run,
                   read, snap>>

\* variant: the callback runs at any time after set(), its delay ignored
TimerFire_early(t) ==
    /\ t \in pending
    /\ pending' = pending \ {t}
    /\ cache' = MapDelete(cache, t.key)
    /\ timers' = [x \in DOMAIN timers \ {t.key} |-> timers[x]]
    /\ last' = Call("timer", t.key, NoValue, FALSE, 0,
                     IF MapHas(cache, t.key) THEN t.key ELSE Undefined)
    /\ History("timer", cache')
    /\ UNCHANGED <<option, now, nextKey, nextTimer, read>>

\* the setTimeout callback of set(): runs once, no earlier than its delay
TimerFire(t) ==
    /\ t \in pending
    /\ now >= t.due
    /\ pending' = pending \ {t}
    /\ cache' = MapDelete(cache, t.key)
    /\ timers' = [x \in DOMAIN timers \ {t.key} |-> timers[x]]
    /\ last' = Call("timer", t.key, NoValue, FALSE, 0,
                     IF MapHas(cache, t.key) THEN t.key ELSE Undefined)
    /\ History("timer", cache')
    /\ UNCHANGED <<option, now, nextKey, nextTimer, read>>

Tick ==
    /\ now < (IF option.type \in {"LRU", "LFU"} THEN MaxIdleTime ELSE MaxTime)
    /\ now' = now + 1
    /\ UNCHANGED <<option, cache, timers, pending, nextKey, nextTimer, last,
                   useOrder, gets, stored, run, read, snap>>

\* get_state_of_cache(): new Map(cache.entries()), a new Map holding the live
\* Map's entry records themselves
Inspect ==
    /\ snap.n < MaxSnapshots
    /\ snap' = [n |-> snap.n + 1, map |-> cache, shared |-> Keys(cache)]
    /\ last' = Call("inspect", Undefined, NoValue, FALSE, Len(cache), Undefined)
    /\ UNCHANGED <<option, cache, timers, pending, now, nextKey, nextTimer,
                   useOrder, gets, stored, run, read>>

\* the caller deletes a key of the returned Map
SnapDelete(key) ==
    /\ MapHas(snap.map, key)
    /\ snap' = [snap EXCEPT !.map = MapDelete(@, key), !.shared = @ \ {key}]
    /\ last' = Call("snapDelete", key, NoValue, FALSE, 0, Undefined)
    /\ UNCHANGED <<option, cache, timers, pending, now, nextKey, nextTimer,
                   useOrder, gets, stored, run, read>>

\* the caller adds a key of its own to the returned Map
SnapAdd ==
    /\ snap.n >= 1
    /\ ~MapHas(snap.map, ForeignKey)
    /\ snap' = [snap EXCEPT !.map = MapSet(@, ForeignKey, NewEntry(Tampered, NoExpiry))]
    /\ last' = Call("snapAdd", ForeignKey, NoValue, FALSE, 0, Undefined)
    /\ UNCHANGED <<option, cache, timers, pending, now, nextKey, nextTimer,
                   useOrder, gets, stored, run, read>>

\* the caller assigns to the content field of a record of the returned Map:
\* the record is an object; while the live Map holds the same object the
\* assignment is seen through both Maps
EntryWrite(key) ==
    /\ MapHas(snap.map, key)
    /\ MapGet(snap.map, key).content # Tampered
    /\ snap' = [snap EXCEPT !.map = WriteContent(@, key)]
    /\ cache' = IF key \in snap.shared THEN WriteContent(cache, key) ELSE cache
    /\ last' = Call("snapWrite", key, NoValue, FALSE, 0, Undefined)
    /\ UNCHANGED <<option, timers, pending, now, nextKey, nextTimer,
                   useOrder, gets, stored, run, read>>

\* the keys a caller can pass: those set() returned so far and a foreign one
CallerKeys == {ForeignKey} \cup 1..(nextKey - 1)

Next ==
    \/ \E v \in Values : Set(v)
    \/ \E k \in CallerKeys : GetMiss(k)
    \/ \E k \in CallerKeys : GetExpired(k)
    \/ \E k \in CallerKeys : GetHit(k)
    \/ \E k \in CallerKeys : Has(k)
    \/ \E k \in CallerKeys : Remove(k)
    \/ Clear
    \/ Size
    \/ \E t \in pending : TimerFire(t)
    \/ Tick

Spec == Init /\ [][Next]_vars

(* An EXPIRE cache whose timers the event loop runs: the clock advances and a  *)
(* timeout that is due is eventually called. set() is explored while its       *)
(* deadline lies within the clock explored.                                     *)
LiveInit == Init /\ option.type = "EXPIRE"

SetInTime(value) == now + option.maxAge <= MaxTime /\ Set(value)

LiveNext ==
    \/ \E v \in Values : SetInTime(v)
    \/ \E k \in CallerKeys : GetMiss(k)
    \/ \E k \in CallerKeys : GetExpired(k)
    \/ \E k \in CallerKeys : GetHit(k)
    \/ \E k \in CallerKeys : Has(k)
    \/ \E k \in CallerKeys : Remove(k)
    \/ Clear
    \/ Size
    \/ \E t \in pending : TimerFire(t)
    \/ Tick

Fairness == WF_vars(Tick) /\ WF_vars(\E t \in pending : TimerFire(t))

LiveSpec == LiveInit /\ [][LiveNext]_vars /\ Fairness

(* The cache together with a caller that keeps the Map get_state_of_cache()    *)
(* returned and changes it.                                                     *)
SetFew(value) == nextKey <= MaxSnapKeys /\ Set(value)

SnapNext ==
    \/ \E v \in Values : SetFew(v)
    \/ \E k \in CallerKeys : GetMiss(k)
    \/ \E k \in CallerKeys : GetExpired(k)
    \/ \E k \in CallerKeys : GetHit(k)
    \/ \E k \in CallerKeys : Has(k)
    \/ \E k \in CallerKeys : Remove(k)
    \/ Clear
    \/ Size
    \/ \E t \in pending : TimerFire(t)
    \/ Tick
    \/ Inspect
    \/ \E k \in CallerKeys : SnapDelete(k)
    \/ SnapAdd
    \/ \E k \in CallerKeys : EntryWrite(k)

SnapSpec == Init /\ [][SnapNext]_vars

(* The cache together with a caller that keeps one Map get_state_of_cache()   *)
(* returned, taken in any state, and only reads it.                             *)
InspectOnce == snap.n = 0 /\ Inspect

CopyNext ==
    \/ \E v \in Values : SetFew(v)
    \/ \E k \in CallerKeys : GetMiss(k)
    \/ \E k \in CallerKeys : GetExpired(k)
    \/ \E k \in CallerKeys : GetHit(k)
    \/ \E k \in CallerKeys : Has(k)
    \/ \E k \in CallerKeys : Remove(k)
    \/ Clear
    \/ Size
    \/ \E t \in pending : TimerFire(t)
    \/ Tick
    \/ InspectOnce

CopySpec == Init /\ [][CopyNext]_vars

(* The constructor called with a configuration of InvalidOptions: its body is  *)
(* the two Map constructions, whatever the option holds.                        *)
ConfigInit ==
    /\ option \in InvalidOptions
    /\ cache = <<>>
    /\ timers = <<>>
    /\ pending = {}
    /\ now = 0
    /\ nextKey = 1
    /\ nextTimer = 1
    /\ last = Call("new", Undefined, NoValue, FALSE, 0, Undefined)
    /\ useOrder = <<>>
    /\ gets = <<>>
    /\ stored = <<>>
    /\ run = [sets |-> 0, phase |-> "sets"]
    /\ read = FALSE
    /\ snap = NoSnapshot

ConfigSpec == ConfigInit /\ [][Next]_vars

(* ------------------------------ claims --------------------------------- *)
Bounded(t) == option.type = t /\ option.max >= 1

\* the step is a call of set()
IsSetStep == nextKey' = nextKey + 1

\* the step is a successful get(last'.key)
IsGetHitStep == last'.op = "get" /\ last'.ret # NotFound /\ now' = now

\* the keys a step removes from the entry Map
EvictedKeys == Keys(cache) \ Keys(cache')

Indices(m) == {m[i].val.index : i \in DOMAIN m}

\* C1: under LRU with capacity C >= 1 the cache holds at most C entries
\* whenever a set has just completed.
C1_LruSizeBound ==
    (Bounded("LRU") /\ last.op = "set") => Len(cache) <= option.max

\* C2: under LRU, whenever a set evicts an entry, the evicted entry is the one
\* whose most recent use (its insertion or its latest successful get) is the
\* oldest among the live entries.
C2_LruEvictsLeastRecent ==
    [][(Bounded("LRU") /\ IsSetStep /\ EvictedKeys # {})
          => EvictedKeys = {useOrder[Len(useOrder)]}]_vars

\* C3: under LRU, in every reachable state the index values of the n live
\* entries are exactly 0..n-1, each occurring once.
C3_LruRanksPermutation ==
    option.type = "LRU" =>
        /\ Indices(cache) = 0..(Len(cache) - 1)
        /\ \A i, j \in DOMAIN cache : cache[i].val.index = cache[j].val.index => i = j

\* C4: under LRU with capacity C >= 1, after C+1 sets from an empty cache with
\* no get or remove in between, the first key is not found and each of the
\* other C keys yields the value stored for it.
C4_LruFirstInsertedEvicted ==
    (Bounded("LRU") /\ run.phase \in {"sets", "gets"} /\ run.sets = option.max + 1) =>
        LET first  == nextKey - run.sets
            others == (first + 1)..(nextKey - 1)
        IN  /\ ~MapHas(cache, first)
            /\ \A k \in others : MapHas(cache, k) /\ MapGet(cache, k).content = stored[k]
            /\ (run.phase = "gets" /\ last.op = "get") =>
                   last.ret = IF last.key \in others THEN stored[last.key] ELSE NotFound

C4_Witness ==
    /\ Bounded("LRU")
    /\ run.phase = "gets"
    /\ run.sets = option.max + 1
    /\ last.op = "get"
    /\ last.key = nextKey - run.sets
    /\ last.ret = NotFound
    /\ Len(cache) = option.max

\* C5: under LFU and under FIFO with capacity C >= 1 the cache holds at most C
\* entries whenever a set has just completed.
C5_LfuFifoSizeBound ==
    ((Bounded("LFU") \/ Bounded("FIFO")) /\ last.op = "set") => Len(cache) <= option.max

C5_Witness ==
    /\ Bounded("LFU") \/ Bounded("FIFO")
    /\ last.op = "set"
    /\ last.evicted # Undefined
    /\ Len(cache) = option.max
    /\ nextKey > option.max + 2

\* C6: under LFU, whenever a set evicts an entry, the frequency of the evicted
\* entry is the minimum over the entries live just before the set, so no entry
\* with strictly more successful gets than another live entry is evicted.
C6_LfuEvictsMinFrequency ==
    [][(Bounded("LFU") /\ IsSetStep /\ EvictedKeys # {})
          => \A v \in EvictedKeys : \A k \in Keys(cache) :
                 /\ MapGet(cache, v).frequency <= MapGet(cache, k).frequency
                 /\ ~(gets[v] > gets[k])]_vars

C6_Witness ==
    /\ Bounded("LFU")
    /\ last.op = "set"
    /\ last.evicted # Undefined
    /\ \E k \in Keys(cache) : gets[k] > 0 /\ k < last.evicted

\* C7: under LFU, in every reachable state the frequency of each live entry
\* equals the number of successful gets of its key since the set that made it.
C7_LfuFrequencyCountsGets ==
    option.type = "LFU" =>
        \A i \in DOMAIN cache : cache[i].val.frequency = gets[cache[i].key]

C7_Witness ==
    /\ option.type = "LFU"
    /\ last.op = "get"
    /\ last.ret # NotFound
    /\ MapHas(cache, last.key)
    /\ MapGet(cache, last.key).frequency = 2
    /\ \E k \in Keys(cache) : MapGet(cache, k).frequency = 0

\* C8: under FIFO, a set performed at capacity evicts the entry inserted first
\* among the live entries, whether or not entries were read since and however
\* much time passed.
C8_FifoIgnoresReads ==
    [][(Bounded("FIFO") /\ IsSetStep /\ EvictedKeys # {})
          => \A v \in EvictedKeys : \A k \in Keys(cache) : v <= k]_vars

C10_FifoWithoutReads ==
    [][(Bounded("FIFO") /\ ~read /\ IsSetStep /\ EvictedKeys # {})
          => \A v \in EvictedKeys : \A k \in Keys(cache) : v <= k]_vars

C10_Witness ==
    /\ Bounded("FIFO")
    /\ ~read
    /\ last.op = "set"
    /\ last.evicted # Undefined
    /\ last.evicted < nextKey - 1 - option.max
    /\ now = 0
    /\ Len(cache) >= 2

\* the step is a call of the operation op (its argument is last'.key)
IsCallStep(op) == last'.op = op /\ now' = now

\* the deadline of the live entry of key k has passed
PastDeadline(k) == MapHas(cache, k) /\ now > MapGet(cache, k).expires

\* what get(k) returns when called in the current state
GetReturns(k) ==
    IF MapHas(cache, k) /\ ~Expired(MapGet(cache, k))
    THEN MapGet(cache, k).content
    ELSE NotFound

\* C11: under EXPIRE, a get(k) made strictly later than the deadline of entry k
\* returns not-found and a has(k) made then returns false, whether the timer
\* of k has fired (k is gone) or not (k is still in the Map).
C11_ExpireLazyCheck ==
    [][(option.type = "EXPIRE" /\ (IsCallStep("get") \/ IsCallStep("has"))
           /\ last'.key # ForeignKey
           /\ (PastDeadline(last'.key) \/ ~MapHas(cache, last'.key)))
          => /\ IsCallStep("get") => last'.ret = NotFound
             /\ IsCallStep("has") => last'.flag = FALSE
             /\ ~MapHas(cache', last'.key)]_vars

C11_Witness ==
    /\ option.type = "EXPIRE"
    /\ last.op = "get"
    /\ last.ret = NotFound
    /\ last.evicted = last.key
    /\ Len(cache) >= 1

\* C12: under EXPIRE, size() returns the number of live entries whose deadline
\* is not earlier than the current time, and leaves no entry whose deadline is
\* earlier than the current time in the Map.
C12_ExpireSizeSweeps ==
    [][(option.type = "EXPIRE" /\ IsCallStep("size"))
          => /\ last'.n = Cardinality({k \in Keys(cache) : MapGet(cache, k).expires >= now})
             /\ \A k \in Keys(cache') : MapGet(cache', k).expires >= now]_vars

C12_Witness ==
    /\ option.type = "EXPIRE"
    /\ last.op = "size"
    /\ last.evicted # Undefined
    /\ last.n >= 1
    /\ last.n = Len(cache)

\* C13: under EXPIRE, every entry created by set is eventually removed from
\* the entry Map, also when the caller makes no further call, provided the
\* clock advances and due timers are run.
C13_ExpireEntriesSelfRemove ==
    \A k \in 1..MaxKeys : MapHas(cache, k) ~> ~MapHas(cache, k)

C13_Witness ==
    /\ option.type = "EXPIRE"
    /\ last.op = "timer"
    /\ last.evicted = last.key
    /\ ~MapHas(cache, last.key)

\* C14: under EXPIRE, in every reachable state the keys of the timer-handle
\* Map are exactly the keys of the entry Map.
C14_ExpireTimersMatchEntries ==
    option.type = "EXPIRE" => DOMAIN timers = Keys(cache)

C14_Witness ==
    /\ option.type = "EXPIRE"
    /\ last.op = "has"
    /\ last.evicted = last.key
    /\ Len(cache) >= 1
    /\ DOMAIN timers = Keys(cache)

\* C15: a cache constructed with an inconsistent configuration (EXPIRE without
\* a positive maxAge, LRU/LFU/FIFO without a positive max, an unknown policy
\* tag) is no usable instance: no method of it ever runs, nothing is stored.
C15_InvalidConfigRejected ==
    ~ValidOption(option) => (last.op = "new" /\ nextKey = 1 /\ cache = <<>>)

\* C16: for every policy, remove(k) of a key that is not in the cache and
\* clear() of an empty cache leave the entry Map, the timer-handle Map and the
\* pending timeouts as they were, and size() of an empty cache returns 0 and
\* leaves it empty.
C16_AbsentRemoveEmptyClearNoOp ==
    [][/\ (IsCallStep("remove") /\ ~MapHas(cache, last'.key))
              => UNCHANGED <<cache, timers, pending>>
       /\ (IsCallStep("clear") /\ cache = <<>>)
              => UNCHANGED <<cache, timers, pending>>
       /\ (IsCallStep("size") /\ cache = <<>>)
              => (last'.n = 0 /\ UNCHANGED <<cache, timers, pending>>)]_vars

C16_Witness ==
    /\ option.type = "EXPIRE"
    /\ last.op = "remove"
    /\ last.key \in 1..(nextKey - 1)
    /\ last.evicted = Undefined
    /\ pending # {}

\* C17: for every policy, after clear() the cache is in the state of a freshly
\* constructed cache of the same policy: the entry Map is empty, the
\* timer-handle Map is empty and no timeout is pending (until the next call).
C17_ClearResets ==
    last.op = "clear" => (cache = <<>> /\ timers = <<>> /\ pending = {})

C17_Witness ==
    /\ option.type = "EXPIRE"
    /\ last.op = "clear"
    /\ last.evicted # Undefined
    /\ nextKey >= 3
    /\ cache = <<>>

\* C18: has(k) returns true exactly when get(k) called at the same instant
\* returns a stored value, and has() changes no policy field: under LRU, LFU
\* and FIFO it leaves every entry as it is, under EXPIRE it changes the state
\* only by deleting k (entry, handle and timeout) when k has expired.
C18_HasMatchesGetAndIsPure ==
    [][/\ IsCallStep("get") => last'.ret = GetReturns(last'.key)
       /\ IsCallStep("has") =>
            LET k    == last'.key
                dead == MapHas(cache, k) /\ Expired(MapGet(cache, k))
            IN  /\ last'.flag = (GetReturns(k) # NotFound)
                /\ cache' = IF dead THEN MapDelete(cache, k) ELSE cache
                /\ timers' = IF dead THEN Restrict(timers, DOMAIN timers \ {k}) ELSE timers
                /\ pending' = IF dead THEN {x \in pending : x.key # k} ELSE pending
                /\ option.type # "EXPIRE" => ~dead]_vars

C18_Witness ==
    /\ option.type = "LRU"
    /\ last.op = "has"
    /\ last.flag = TRUE
    /\ Len(cache) >= 2
    /\ \E i \in DOMAIN cache : cache[i].key = last.key /\ cache[i].val.index >= 1

\* C19: changing the Map get_state_of_cache() returned (adding a key, deleting
\* a key, assigning to a field of one of its entry records) changes nothing of
\* the live cache: the entry Map that get, has, size and a later
\* get_state_of_cache() read, the timer handles and the pending timeouts.
C19_SnapshotMutationIsolated ==
    [][(IsCallStep("snapAdd") \/ IsCallStep("snapDelete") \/ IsCallStep("snapWrite"))
          => /\ UNCHANGED <<cache, timers, pending>>
             /\ \A k \in CallerKeys : GetReturns(k)' = GetReturns(k)]_vars

\* what get() of the key of the last call returns when called in the current state
LastKeyReturns == GetReturns(last.key)

\* C20: for every policy with a valid configuration, set(v) returns a key k
\* whose entry is in the Map with content v when set returns (the new entry is
\* not the victim of its own set), and a get(k) made next, at the same
\* instant, returns v.
C20_SetThenGetReturnsValue ==
    [][/\ IsSetStep =>
            /\ last'.op = "set" /\ last'.key = nextKey
            /\ MapHas(cache', nextKey)
            /\ LastKeyReturns' = Item[nextKey]
            /\ last'.evicted # nextKey
       /\ (last.op = "set" /\ IsCallStep("get") /\ last'.key = last.key
              /\ (MapHas(cache, last.key) => MapGet(cache, last.key).insertedAt = now))
            => last'.ret = Item[last.key]]_vars

C20_Witness ==
    /\ option.type = "LFU"
    /\ last.op = "get"
    /\ nextKey - 1 > option.max
    /\ last.key = nextKey - 1
    /\ last.ret = Item[last.key]
    /\ Len(cache) = option.max
    /\ \E k \in Keys(cache) : k # last.key /\ MapGet(cache, k).frequency >= 1

\* C21: for every policy, get(k) of a key that is not in the cache (never
\* returned by set, evicted, removed or cleared) returns not-found and leaves
\* the entry Map, with every index, frequency and insertedAt, the timer
\* handles and the pending timeouts unchanged.
C21_GetAbsentIsNoOp ==
    [][(IsCallStep("get") /\ ~MapHas(cache, last'.key))
          => /\ last'.ret = NotFound
             /\ UNCHANGED <<cache, timers, pending>>]_vars

C21_Witness ==
    /\ option.type = "LRU"
    /\ last.op = "get"
    /\ last.ret = NotFound
    /\ last.key \in 1..(nextKey - 1)
    /\ ~MapHas(cache, last.key)
    /\ \E i \in DOMAIN cache : cache[i].val.index >= 1

\* C22: under LRU, a set called while the entry count is at least the capacity
\* evicts exactly one entry, the one whose index is the maximum among the live
\* entries, also in states reached through get of the freshest key or remove.
C22_LruEvictsMaxIndex ==
    [][(Bounded("LRU") /\ IsSetStep /\ Len(cache) >= option.max)
          => \E v \in Keys(cache) :
                /\ EvictedKeys = {v}
                /\ \A k \in Keys(cache) : MapGet(cache, k).index <= MapGet(cache, v).index]_vars

\* C23: under LRU, a successful get(k) sets the index of k to 0 and raises the
\* index of every other live entry by exactly 1; a set gives the new entry
\* index 0 and raises the index of every remaining entry by exactly 1.
C23_LruRankUpdates ==
    [][/\ (option.type = "LRU" /\ IsGetHitStep) =>
            /\ Len(cache') = Len(cache)
            /\ \A i \in DOMAIN cache :
                   cache'[i] = [cache[i] EXCEPT !.val.index =
                                    IF cache[i].key = last'.key THEN 0 ELSE @ + 1]
       /\ (option.type = "LRU" /\ IsSetStep) =>
            /\ MapHas(cache', nextKey)
            /\ MapGet(cache', nextKey).index = 0
            /\ \A k \in Keys(cache') \ {nextKey} :
                   /\ MapHas(cache, k)
                   /\ MapGet(cache', k) = [MapGet(cache, k) EXCEPT !.index = @ + 1]]_vars

C23_Witness ==
    /\ option.type = "LRU"
    /\ last.op = "get"
    /\ last.ret # NotFound
    /\ MapHas(cache, last.key)
    /\ MapGet(cache, last.key).index = 0
    /\ \E k \in Keys(cache) : k # last.key /\ MapGet(cache, k).index = 2

\* C24: under LFU, when several live entries share the minimum frequency at an
\* evicting set, the victim is the first of them in the iteration order of the
\* entry Map, which is the one inserted earliest; a get that raises the
\* frequency of an entry does not move it in that order.
C24_LfuTieFirstInserted ==
    [][/\ (Bounded("LFU") /\ IsSetStep /\ EvictedKeys # {}) =>
            LET minF == Min({cache[i].val.frequency : i \in DOMAIN cache})
                ties == {i \in DOMAIN cache : cache[i].val.frequency = minF}
            IN  /\ EvictedKeys = {cache[Min(ties)].key}
                /\ \A i \in ties : cache[Min(ties)].key <= cache[i].key
       /\ (option.type = "LFU" /\ IsGetHitStep) =>
            /\ Len(cache') = Len(cache)
            /\ \A i \in DOMAIN cache : cache'[i].key = cache[i].key
       /\ option.type = "LFU" =>
            \A i, j \in DOMAIN cache : i < j => cache[i].key < cache[j].key]_vars

C24_Witness ==
    /\ Bounded("LFU")
    /\ last.op = "set"
    /\ last.evicted # Undefined
    /\ \E k \in Keys(cache) :
          k # last.key /\ k > last.evicted /\ MapGet(cache, k).frequency = 0

C26_ExpireNoEarlyRemoval ==
    [][option.type = "EXPIRE" =>
          \A k \in Keys(cache) :
             now < MapGet(cache, k).expires =>
                /\ (IsCallStep("get") /\ last'.key = k) => last'.ret = stored[k]
                /\ (IsCallStep("has") /\ last'.key = k) => last'.flag = TRUE
                /\ ~((IsCallStep("remove") /\ last'.key = k) \/ IsCallStep("clear"))
                      => /\ MapHas(cache', k)
                         /\ MapGet(cache', k) = MapGet(cache, k)]_vars

C26_Witness ==
    /\ option.type = "EXPIRE"
    /\ last.op = "timer"
    /\ last.evicted = last.key
    /\ \E k \in Keys(cache) : now < MapGet(cache, k).expires /\ k > last.key

\* the step deletes key k, its handle and its timeout, and nothing else
DeletesOnly(k) ==
    /\ cache' = MapDelete(cache, k)
    /\ timers' = Restrict(timers, DOMAIN timers \ {k})
    /\ pending' = {x \in pending : x.key # k}

\* the step deletes the keys past their deadline with their handles and
\* timeouts, and nothing else
DeletesExpired ==
    LET gone == {k \in Keys(cache) : PastDeadline(k)}
    IN  /\ cache' = SelectSeq(cache, LAMBDA p : p.key \notin gone)
        /\ timers' = Restrict(timers, DOMAIN timers \ gone)
        /\ pending' = {x \in pending : x.key \notin gone}

\* C27 as stated: under EXPIRE the timer callback of k and a lazy get, has or
\* size made when k is past its deadline each leave k out of the entry Map and
\* the timer-handle Map and every other entry and handle unchanged, and made on
\* a key already deleted they change nothing.
C27_LazyAndTimerDeleteOnlyK ==
    [][option.type = "EXPIRE" =>
          /\ IsCallStep("timer") => DeletesOnly(last'.key)
          /\ ((IsCallStep("get") \/ IsCallStep("has")) /\ PastDeadline(last'.key))
                => DeletesOnly(last'.key)
          /\ ((IsCallStep("get") \/ IsCallStep("has")) /\ ~MapHas(cache, last'.key))
                => UNCHANGED <<cache, timers, pending>>
          /\ IsCallStep("size") =>
                /\ \A k \in Keys(cache) : PastDeadline(k) => DeletesOnly(k)
                /\ (\A k \in Keys(cache) : ~PastDeadline(k))
                      => UNCHANGED <<cache, timers, pending>>]_vars

\* C27 amended: as above, except that size deletes every key past its deadline
\* at once, so of the other entries and handles it leaves unchanged those that
\* are not past their deadline.
C27_LazyAndTimerDeleteCommute ==
    [][option.type = "EXPIRE" =>
          /\ IsCallStep("timer") => DeletesOnly(last'.key)
          /\ ((IsCallStep("get") \/ IsCallStep("has")) /\ PastDeadline(last'.key))
                => DeletesOnly(last'.key)
          /\ ((IsCallStep("get") \/ IsCallStep("has")) /\ ~MapHas(cache, last'.key))
                => UNCHANGED <<cache, timers, pending>>
          /\ IsCallStep("size") => DeletesExpired]_vars

C27_Witness ==
    /\ option.type = "EXPIRE"
    /\ last.op = "size"
    /\ last.evicted = 1
    /\ nextKey = 4
    /\ Keys(cache) = {3}
    /\ DOMAIN timers = {3}
    /\ \A x \in pending : x.key = 3

\* C28: under EXPIRE, a key deleted by remove, by clear or by the lazy deletion
\* of get, has or size has its timeout cancelled; so in every reachable state
\* the pending timeouts are exactly one per key of the entry Map, the one its
\* handle names, and a timeout that runs finds its key in the Map.
C28_ExpirePendingMatchEntries ==
    option.type = "EXPIRE" =>
        /\ {x.key : x \in pending} = Keys(cache)
        /\ \A x, y \in pending : x.key = y.key => x = y
        /\ \A x \in pending : x.key \in DOMAIN timers /\ timers[x.key] = x.id
        /\ last.op = "timer" => last.evicted = last.key

C28_Witness ==
    /\ option.type = "EXPIRE"
    /\ last.op = "remove"
    /\ last.evicted = last.key
    /\ \E x \in pending : now >= x.due /\ MapHas(cache, x.key)

\* C29: under LRU, in every reachable state the index values of the live
\* entries are pairwise distinct and ordered like recency: index(a) < index(b)
\* exactly when the most recent use (insertion or successful get) of a is later
\* than that of b; also after remove and repeated gets, when the indexes are
\* no longer contiguous.
C29_LruRanksFollowRecency ==
    option.type = "LRU" =>
        /\ {useOrder[i] : i \in DOMAIN useOrder} = Keys(cache)
        /\ Len(useOrder) = Len(cache)
        /\ \A i, j \in DOMAIN useOrder :
               (i < j) <=> (MapGet(cache, useOrder[i]).index < MapGet(cache, useOrder[j]).index)

C29_Witness ==
    /\ option.type = "LRU"
    /\ last.op = "remove"
    /\ last.evicted = last.key
    /\ Len(cache) >= 2
    /\ Indices(cache) # 0..(Len(cache) - 1)

\* C30: under LRU, LFU and FIFO, a set made while the entry count is strictly
\* below the capacity removes no entry: every key live before is live after it
\* with the same content, and the entry count grows by exactly 1.
C30_SetBelowCapacityKeepsAll ==
    [][((Bounded("LRU") \/ Bounded("LFU") \/ Bounded("FIFO"))
           /\ IsSetStep /\ Len(cache) < option.max)
          => /\ EvictedKeys = {}
             /\ \A k \in Keys(cache) :
                    MapHas(cache', k) /\ MapGet(cache', k).content = MapGet(cache, k).content
             /\ Len(cache') = Len(cache) + 1]_vars

C30_Witness ==
    /\ Bounded("LRU") \/ Bounded("LFU") \/ Bounded("FIFO")
    /\ last.op = "set"
    /\ last.evicted = Undefined
    /\ Len(cache) = option.max
    /\ Len(cache) >= 2
    /\ nextKey >= 4

\* C31: for every policy, remove(k) deletes only the entry of k: every other
\* entry stays with its content, index, frequency, insertedAt and expires
\* unchanged (under LRU the remaining indexes are not renumbered), and under
\* EXPIRE every other key keeps its handle and its timeout.
C31_RemoveDeletesOnlyKey ==
    [][IsCallStep("remove") =>
          /\ DeletesOnly(last'.key)
          /\ \A k \in Keys(cache) \ {last'.key} :
                /\ MapHas(cache', k)
                /\ MapGet(cache', k) = MapGet(cache, k)
                /\ k \in DOMAIN timers => (k \in DOMAIN timers' /\ timers'[k] = timers[k])]_vars

C31_Witness ==
    /\ option.type = "LRU"
    /\ last.op = "remove"
    /\ last.evicted = last.key
    /\ Len(cache) = 1
    /\ cache[1].val.index >= 1
    /\ cache[1].key < last.key

\* what the caller reads through the snapshot: for a record still shared with
\* the live Map the fields of that one object, for the others the copy's own
SnapView ==
    [i \in DOMAIN snap.map |->
        IF snap.map[i].key \in snap.shared /\ MapHas(cache, snap.map[i].key)
        THEN [key |-> snap.map[i].key, val |-> MapGet(cache, snap.map[i].key)]
        ELSE snap.map[i]]

\* the step is a call of a method of the cache other than get_state_of_cache,
\* or a timer callback
IsCacheStep ==
    \/ IsSetStep
    \/ \E op \in {"get", "has", "remove", "clear", "size", "timer"} : IsCallStep(op)

\* C32: the Map get_state_of_cache() returned is a point-in-time copy: a later
\* set, get, has, remove, clear, size or timer callback leaves its key set and
\* every field of its entries (content, index, frequency, insertedAt, expires)
\* as they were.
C32_SnapshotIsPointInTime ==
    [][IsCacheStep => SnapView' = SnapView]_vars

C32_Witness ==
    /\ option.type = "LFU"
    /\ snap.n = 1
    /\ last.op = "get"
    /\ last.ret # NotFound
    /\ MapHas(snap.map, last.key)
    /\ MapHas(cache, last.key)
    /\ MapGet(cache, last.key).frequency > MapGet(snap.map, last.key).frequency
    /\ Keys(snap.map) # Keys(cache)

====
